---- MODULE Spec2Model ----
(***************************************************************************)
(* Model of the route-visualization tool (ipinfo.py): input collection,    *)
(* hop extraction, geolocation, rendering and the return to the menu.      *)
(*                                                                         *)
(* Trace text is a sequence of lines.  A line is a record naming its       *)
(* layout (fmt) and its tokens; each regular expression of the extractor   *)
(* is an operator saying which layouts it matches and what it captures.    *)
(***************************************************************************)
EXTENDS Integers, Sequences, FiniteSets, TLC

(* ---------------------------- bounds ----------------------------------- *)
MaxLines == 2
MaxHopIdx == 2
MaxRuns == 2
MaxClock == 1

HopIdx == 1..MaxHopIdx
None == "None"
NoLoss == -1

(* ------------------------- address tokens ------------------------------ *)
\* tokens of the shape \d{1,3}\.\d{1,3}\.\d{1,3}\.\d{1,3}
V4Shaped == {"8.8.8.8", "1.1.1.1", "192.168.1.1", "999.9.9.9",
             "127.0.0.1", "169.254.0.1", "0.0.0.0"}
\* two spellings of one IPv6 address
V6Literal == {"2a00:1450::1", "2A00:1450::1"}
HostNames == {"host.example"}

\* ipaddress.ip_address(ip): the parsed address, None when parsing fails
ip_address(ip) ==
    IF ip \in V4Shaped \ {"999.9.9.9"} THEN ip
    ELSE IF ip \in V6Literal THEN "2a00:1450::1"
    ELSE None

is_valid_ip(ip) == ip_address(ip) # None

is_private(ip) == ip \in {"192.168.1.1", "127.0.0.1", "169.254.0.1", "0.0.0.0"}
is_loopback(ip) == ip = "127.0.0.1"
is_unspecified(ip) == ip = "0.0.0.0"
is_link_local(ip) == ip = "169.254.0.1"

\* socket.gethostbyname outcomes: a dotted quad, or None for gaierror
DnsOutcomes == [HostNames -> {"1.1.1.1", None}]

resolve_hostname(hostname, dns) ==
    IF hostname = "???" \/ hostname = "unknown" THEN None
    ELSE IF hostname \in DOMAIN dns /\ is_valid_ip(dns[hostname]) THEN dns[hostname]
    ELSE None

(* ----------------------------- lines ----------------------------------- *)
\*  mtr_full      "<hop>. AS<asn> <host> <loss>.0% <cols>"
\*  mtr_detailed  "<hop>. router1 <host>"
\*  mtr_plain     "<hop>.  <host>  <loss>.0% <ms> ms"
\*  traceroute    "<hop>  gw (<host>)  <ms> ms"
\*  traceroute_n  "<hop>  <host>  <ms> ms  <ms> ms"
\*  bare          "via <host>"
\*  text          "Start: now"
\*  blank         ""
\* ms: the '<value> ms' tokens after the host; cols: the numeric columns
\* after the loss percentage
LineT(f, h, a, l, s, ms, cols) ==
    [fmt |-> f, hop |-> h, host |-> a, loss |-> l, asn |-> s, ms |-> ms, cols |-> cols]

Line(f, h, a, l, s) == LineT(f, h, a, l, s, <<>>, <<>>)

Lines ==
    {Line("mtr_full", h, a, 0, "64500") :
        h \in HopIdx, a \in {"host.example"} \cup V6Literal}
    \cup {Line("mtr_full", h, "???", 100, "???") : h \in HopIdx}
    \cup {Line("mtr_detailed", h, "1.1.1.1", NoLoss, "") : h \in HopIdx}
    \cup {Line("mtr_plain", h, "192.168.1.1", 0, "") : h \in HopIdx}
    \cup {LineT("traceroute", h, "8.8.8.8", NoLoss, "", <<12>>, <<>>) : h \in HopIdx}
    \cup {Line("bare", 0, a, NoLoss, "") :
            a \in {"1.1.1.1", "999.9.9.9", "127.0.0.1", "169.254.0.1", "0.0.0.0"}}
    \cup {Line("text", 0, "", NoLoss, ""), Line("blank", 0, "", NoLoss, "")}

\* traces of an mtr report without AS column, as in the end-to-end scenario
\* "1.  192.168.1.1  0.0%\n2.  8.8.8.8  0.0% 12 ms"
GeoLines ==
    {Line("mtr_plain", h, a, 0, "") : h \in HopIdx, a \in {"192.168.1.1", "1.1.1.1"}}
    \cup {LineT("mtr_plain", h, "8.8.8.8", 0, "", <<12>>, <<>>) : h \in HopIdx}

\* traces that carry latency samples and lossy hops: mtr reports with
\* the columns Snt Last Avg (one of them with '250.0%' in the loss column),
\* and traceroute -n with one or two probes
ProbeLines ==
    {LineT("mtr_full", h, "8.8.8.8", l, "64500", <<>>, c) :
        h \in HopIdx, l \in {0, 100}, c \in {<<>>, <<10, 12, 34>>}}
    \cup {Line("mtr_full", h, "8.8.8.8", 250, "64500") : h \in HopIdx}
    \cup {Line("mtr_full", h, "???", 100, "???") : h \in HopIdx}
    \cup {LineT("traceroute_n", h, "1.1.1.1", NoLoss, "", ms, <<>>) :
            h \in HopIdx, ms \in {<<>>, <<12>>, <<12, 10>>}}

\* variant: not trace_output, without strip()
IsBlank_nostrip(tr) == tr = <<>>

\* trace_output.strip() is empty
IsBlank(tr) == \A i \in 1..Len(tr) : tr[i].fmt = "blank"

(* --------------------------- sequences --------------------------------- *)
Pair(h, a) == [hop |-> h, ip |-> a]

RECURSIVE SeqOfPairs(_)
\* the (hop, address) captures of a list of matched lines
SeqOfPairs(ls) ==
    IF ls = <<>> THEN <<>>
    ELSE <<Pair(Head(ls).hop, Head(ls).host)>> \o SeqOfPairs(Tail(ls))

\* dict[key] = value
Put(d, k, v) == (k :> v) @@ d

EmptyMap == <<>>

(* ------------------------ pattern families ----------------------------- *)
\* mtr_full_pattern
mtr_full_pattern(tr) == SelectSeq(tr, LAMBDA l : l.fmt = "mtr_full")

\* mtr_detailed_pattern: index, '.', a word, a dotted quad
mtr_detailed_pattern(tr) ==
    SeqOfPairs(SelectSeq(tr, LAMBDA l :
        \/ l.fmt = "mtr_detailed"
        \/ l.fmt = "mtr_full" /\ l.asn # "???" /\ l.host \in V4Shaped))

\* mtr_pattern: index, '.' or ':', anything, a dotted quad
mtr_pattern(tr) ==
    SeqOfPairs(SelectSeq(tr, LAMBDA l :
        l.fmt \in {"mtr_full", "mtr_detailed", "mtr_plain"} /\ l.host \in V4Shaped))

\* traceroute_pattern: index, blank, optional word, optional '(', dotted quad
traceroute_pattern(tr) ==
    SeqOfPairs(SelectSeq(tr, LAMBDA l : l.fmt \in {"traceroute", "traceroute_n"}))

\* ip_pattern with enumerate: every dotted quad, numbered 1, 2, 3, ...
ip_pattern(tr) ==
    LET ls == SelectSeq(tr, LAMBDA l : l.host \in V4Shaped)
    IN  [i \in 1..Len(ls) |-> Pair(i, ls[i].host)]

RECURSIVE loss_pattern(_)
\* loss_pattern: lines starting with an index and holding a percentage
loss_pattern(tr) ==
    IF tr = <<>> THEN EmptyMap
    ELSE LET l == tr[Len(tr)]
             rest == loss_pattern(SubSeq(tr, 1, Len(tr) - 1))
         IN  IF l.fmt \in {"mtr_full", "mtr_detailed", "mtr_plain"} /\ l.loss # NoLoss
             THEN Put(rest, l.hop, l.loss)
             ELSE rest

\* the token hostname_pattern captures on a line, None when it does not match
HostnameToken(l) ==
    CASE l.fmt = "mtr_detailed" -> "router1"
      [] l.fmt = "traceroute" -> "gw"
      [] l.fmt \in {"mtr_plain", "traceroute_n"} -> l.host
      [] l.fmt = "mtr_full" -> IF l.asn = "???" THEN None ELSE "AS" \o l.asn
      [] OTHER -> None

RECURSIVE hostname_pattern(_)
\* hostname_pattern, keeping the tokens that are not addresses
hostname_pattern(tr) ==
    IF tr = <<>> THEN EmptyMap
    ELSE LET l == tr[Len(tr)]
             rest == hostname_pattern(SubSeq(tr, 1, Len(tr) - 1))
             tok == HostnameToken(l)
         IN  IF tok # None /\ ~is_valid_ip(tok)
             THEN Put(rest, l.hop, tok)
             ELSE rest

(* --------------------------- extraction -------------------------------- *)
Extraction(ips, pl, hn, asn) ==
    [ips |-> ips, packet_loss |-> pl, hostnames |-> hn, asn_info |-> asn]

RECURSIVE Family1Loop(_, _, _)
\* the loop over the mtr_full_pattern matches
Family1Loop(matches, dns, acc) ==
    IF matches = <<>> THEN acc
    ELSE
      LET m == Head(matches)
          skip == Extraction(acc.ips,
                             Put(acc.packet_loss, m.hop, m.loss),
                             Put(acc.hostnames, m.hop, m.host),
                             acc.asn_info)
          ip == IF is_valid_ip(m.host) THEN m.host ELSE resolve_hostname(m.host, dns)
          keep == Extraction(Append(acc.ips, Pair(m.hop, ip)),
                             Put(acc.packet_loss, m.hop, m.loss),
                             Put(acc.hostnames, m.hop, m.host),
                             IF m.asn # "" /\ m.asn # "???"
                             THEN Put(acc.asn_info, m.hop, "AS" \o m.asn)
                             ELSE acc.asn_info)
      IN  Family1Loop(Tail(matches), dns, IF ip = None THEN skip ELSE keep)

\* variant: the captures of all permissive families, one after another
Family2_combined(tr) ==
    mtr_detailed_pattern(tr) \o mtr_pattern(tr) \o traceroute_pattern(tr)
        \o ip_pattern(tr)

\* the cascade of the permissive families
Family2(tr) ==
    IF mtr_detailed_pattern(tr) # <<>> THEN mtr_detailed_pattern(tr)
    ELSE IF mtr_pattern(tr) # <<>> THEN mtr_pattern(tr)
    ELSE IF traceroute_pattern(tr) # <<>> THEN traceroute_pattern(tr)
    ELSE ip_pattern(tr)

\* variant: the permissive families run whenever no address was appended,
\* also after full-fidelity matches
Cascade_fallthrough(tr, dns) ==
    LET f1 == Family1Loop(mtr_full_pattern(tr), dns,
                          Extraction(<<>>, EmptyMap, EmptyMap, EmptyMap))
    IN  IF f1.ips # <<>> THEN f1
        ELSE Extraction(Family2(tr),
                        IF f1.packet_loss = EmptyMap THEN loss_pattern(tr)
                        ELSE f1.packet_loss,
                        IF f1.hostnames = EmptyMap THEN hostname_pattern(tr)
                        ELSE f1.hostnames,
                        f1.asn_info)

\* lines 112-190: candidates and auxiliary maps, before deduplication.
\* In the else branch packet_loss and hostnames are still empty, so the
\* standalone patterns always run there.
Cascade(tr, dns) ==
    IF mtr_full_pattern(tr) # <<>>
    THEN Family1Loop(mtr_full_pattern(tr), dns,
                     Extraction(<<>>, EmptyMap, EmptyMap, EmptyMap))
    ELSE Extraction(Family2(tr), loss_pattern(tr), hostname_pattern(tr), EmptyMap)

RECURSIVE FilterLoop_novalidate(_, _, _)
\* variant: duplicates are dropped but tokens are not validated
FilterLoop_novalidate(ips, seen_ips, filtered_ips) ==
    IF ips = <<>> THEN filtered_ips
    ELSE LET e == Head(ips)
         IN  IF e.ip \notin seen_ips
             THEN FilterLoop_novalidate(Tail(ips), seen_ips \cup {e.ip},
                                        Append(filtered_ips, e))
             ELSE FilterLoop_novalidate(Tail(ips), seen_ips, filtered_ips)

RECURSIVE FilterLoop(_, _, _)
\* lines 192-199: drop addresses already seen and invalid tokens
FilterLoop(ips, seen_ips, filtered_ips) ==
    IF ips = <<>> THEN filtered_ips
    ELSE LET e == Head(ips)
         IN  IF e.ip \notin seen_ips /\ is_valid_ip(e.ip)
             THEN FilterLoop(Tail(ips), seen_ips \cup {e.ip}, Append(filtered_ips, e))
             ELSE FilterLoop(Tail(ips), seen_ips, filtered_ips)

extract_ips_from_trace(tr, dns) ==
    LET c == Cascade(tr, dns)
    IN  Extraction(FilterLoop(c.ips, {}, <<>>), c.packet_loss, c.hostnames, c.asn_info)

(* ----------------------------- latency --------------------------------- *)
\* pattern of line 210: the address after a line start or a blank, then the
\* first number followed by 'ms'; one capture per line that holds both
LatencyMatches(tr, ip) ==
    LET ls == SelectSeq(tr, LAMBDA l :
                  /\ l.host = ip
                  /\ l.fmt # "traceroute"
                  /\ l.ms # <<>>)
    IN  [i \in 1..Len(ls) |-> ls[i].ms[1]]

\* mtr_pattern of line 215: a line starting with '<hop>.' that holds three
\* numeric columns in a row; the captures are the first three
ColumnMatches(tr, hop) ==
    LET ls == SelectSeq(tr, LAMBDA l :
                  /\ l.fmt \in {"mtr_full", "mtr_detailed", "mtr_plain"}
                  /\ l.hop = hop
                  /\ Len(l.cols) >= 3)
    IN  [i \in 1..Len(ls) |-> SubSeq(ls[i].cols, 1, 3)]

\* min(...) of a non-empty sequence of numbers
Min(seq) ==
    CHOOSE m \in {seq[i] : i \in 1..Len(seq)} : \A i \in 1..Len(seq) : m <= seq[i]

RECURSIVE LatencyLoop(_, _, _)
\* lines 208-228: the loop over the Hop list
LatencyLoop(tr, ips, latencies) ==
    IF ips = <<>> THEN latencies
    ELSE LET e == Head(ips)
             matches == LatencyMatches(tr, e.ip)
             mtr_matches == ColumnMatches(tr, e.hop)
         IN  LatencyLoop(tr, Tail(ips),
                 IF matches # <<>> THEN Put(latencies, e, Min(matches))
                 ELSE IF mtr_matches # <<>> THEN Put(latencies, e, mtr_matches[1][2])
                 ELSE latencies)

\* the latency recorded for each (hop, address) of the Hop list
extract_latencies(tr, ips) == LatencyLoop(tr, ips, EmptyMap)

(* --------------------------- geolocation ------------------------------- *)
\* ipinfo.io: exception or non-200, 200 without usable "loc", 200 with "loc"
PrimaryResp == {"error", "no_loc", "ok"}
\* ip-api.com: exception, status # success, success, success without lat/lon
FallbackResp == {"error", "fail", "success", "success_nocoords"}

\* lines 56-64 and 88-96: the location dictionary; "asn" is the provider's
\* "org" (ipinfo.io) or "as" (ip-api.com) field
Location(ip, src, c) ==
    [ip |-> ip, source |-> src, coords |-> c,
     country |-> "country", region |-> "region", city |-> "city",
     asn |-> CASE src = "primary" -> "org"
               [] src = "fallback" -> "as"
               [] OTHER -> None]
\* get_location returned None
NoLocation == Location(None, None, FALSE)

\* variant: only loopback and unspecified addresses are skipped
get_location_noprivate(ip, p, f) ==
    IF ~is_valid_ip(ip) THEN [loc |-> NoLocation, reqs |-> <<>>, raises |-> FALSE]
    ELSE IF is_loopback(ip_address(ip)) \/ is_unspecified(ip_address(ip))
    THEN [loc |-> NoLocation, reqs |-> <<>>, raises |-> FALSE]
    ELSE IF p = "ok"
    THEN [loc |-> Location(ip, "primary", TRUE), reqs |-> <<"primary">>,
          raises |-> FALSE]
    ELSE [loc |-> CASE f = "success" -> Location(ip, "fallback", TRUE)
                    [] f = "success_nocoords" -> Location(ip, "fallback", FALSE)
                    [] OTHER -> NoLocation,
          reqs |-> <<"primary", "fallback">>,
          raises |-> FALSE]

\* variant: the fallback answer is used whatever its status
get_location_anystatus(ip, p, f) ==
    IF ~is_valid_ip(ip) THEN [loc |-> NoLocation, reqs |-> <<>>, raises |-> FALSE]
    ELSE IF \/ is_private(ip_address(ip)) \/ is_loopback(ip_address(ip))
            \/ is_unspecified(ip_address(ip)) \/ is_link_local(ip_address(ip))
    THEN [loc |-> NoLocation, reqs |-> <<>>, raises |-> FALSE]
    ELSE IF p = "ok"
    THEN [loc |-> Location(ip, "primary", TRUE), reqs |-> <<"primary">>,
          raises |-> FALSE]
    ELSE [loc |-> CASE f \in {"success", "fail"} -> Location(ip, "fallback", TRUE)
                    [] f = "success_nocoords" -> Location(ip, "fallback", FALSE)
                    [] OTHER -> NoLocation,
          reqs |-> <<"primary", "fallback">>,
          raises |-> FALSE]

\* variant: the fallback provider is queried outside any try block
get_location_uncaught(ip, p, f) ==
    IF ~is_valid_ip(ip) THEN [loc |-> NoLocation, reqs |-> <<>>, raises |-> FALSE]
    ELSE IF \/ is_private(ip_address(ip)) \/ is_loopback(ip_address(ip))
            \/ is_unspecified(ip_address(ip)) \/ is_link_local(ip_address(ip))
    THEN [loc |-> NoLocation, reqs |-> <<>>, raises |-> FALSE]
    ELSE IF p = "ok"
    THEN [loc |-> Location(ip, "primary", TRUE), reqs |-> <<"primary">>,
          raises |-> FALSE]
    ELSE [loc |-> CASE f = "success" -> Location(ip, "fallback", TRUE)
                    [] f = "success_nocoords" -> Location(ip, "fallback", FALSE)
                    [] OTHER -> NoLocation,
          reqs |-> <<"primary", "fallback">>,
          raises |-> f = "error"]

\* the result, the providers queried in order, and whether an exception
\* leaves the function: both provider blocks end in 'except Exception'
get_location(ip, p, f) ==
    IF ~is_valid_ip(ip) THEN [loc |-> NoLocation, reqs |-> <<>>, raises |-> FALSE]
    ELSE IF \/ is_private(ip_address(ip)) \/ is_loopback(ip_address(ip))
            \/ is_unspecified(ip_address(ip)) \/ is_link_local(ip_address(ip))
    THEN [loc |-> NoLocation, reqs |-> <<>>, raises |-> FALSE]
    ELSE IF p = "ok"
    THEN [loc |-> Location(ip, "primary", TRUE), reqs |-> <<"primary">>,
          raises |-> FALSE]
    ELSE [loc |-> CASE f = "success" -> Location(ip, "fallback", TRUE)
                    [] f = "success_nocoords" -> Location(ip, "fallback", FALSE)
                    [] OTHER -> NoLocation,
          reqs |-> <<"primary", "fallback">>,
          raises |-> FALSE]

\* variant: any location returned is plotted
Mappable_any(loc) == loc # NoLocation

\* line 240: location and location["lat"] is not None and ... ["lon"] is not None
Mappable(loc) == loc # NoLocation /\ loc.coords

(* ---------------------------- rendering -------------------------------- *)
RECURSIVE sorted(_)
\* sorted(set): ascending sequence of the members
sorted(S) ==
    IF S = {} THEN <<>>
    ELSE LET m == CHOOSE x \in S : \A y \in S : x <= y
         IN  <<m>> \o sorted(S \ {m})

\* variant: the hop numbers in discovery order, neither sorted nor made unique
all_hops_unsorted(ips, pl) ==
    [i \in 1..Len(ips) |-> ips[i].hop] \o sorted(DOMAIN pl)

\* variant: the hop numbers of the Hop list only
all_hops_addressed(ips, pl) ==
    sorted({ips[i].hop : i \in 1..Len(ips)})

\* sorted(set([hop for hop, _ in ips_with_hops] + list(packet_loss.keys())))
all_hops(ips, pl) ==
    sorted({ips[i].hop : i \in 1..Len(ips)} \cup DOMAIN pl)

\* next((ip for h, ip in ips_with_hops if h == hop), None)
FirstIp(ips, hop) ==
    LET idx == {i \in 1..Len(ips) : ips[i].hop = hop}
    IN  IF idx = {} THEN None
        ELSE ips[CHOOSE i \in idx : \A j \in idx : i <= j].ip

\* dict.get(key, default)
Get(d, k, default) == IF k \in DOMAIN d THEN d[k] ELSE default

\* the latency column without a sample: 'N/A'
NA == -1

\* lines 433 and 568: location_lookup = {loc["ip"]: loc for loc in locations},
\* a later entry replacing an earlier one with the same address
location_lookup(locs) ==
    [ip \in {locs[i].ip : i \in 1..Len(locs)} |->
        locs[CHOOSE i \in 1..Len(locs) :
               /\ locs[i].ip = ip
               /\ \A j \in 1..Len(locs) : locs[j].ip = ip => j <= i]]

\* lines 469-503: one line of the console hop table. The latency is printed
\* with two decimals and the unit ' ms'; the location is 'city, country'
ConsoleRow(ips, locs, pl, hn, asn, lat, hop) ==
    LET ip == FirstIp(ips, hop)
        found == ip # None /\ ip \in DOMAIN location_lookup(locs)
        timed == ip # None /\ Pair(hop, ip) \in DOMAIN lat
    IN  [hop |-> hop,
         ip |-> IF ip # None THEN ip ELSE "???",
         hostname |-> Get(hn, hop, ""),
         loss |-> Get(pl, hop, 0),
         latency |-> IF timed THEN lat[Pair(hop, ip)] ELSE NA,
         unit |-> IF timed THEN " ms" ELSE "",
         location |-> IF found
                      THEN <<location_lookup(locs)[ip].city,
                             location_lookup(locs)[ip].country>>
                      ELSE <<"Unknown">>,
         asn |-> IF found THEN location_lookup(locs)[ip].asn
                 ELSE Get(asn, hop, "Unknown")]

\* print_route_summary: the rows of the hop table
print_route_summary(ips, locs, pl, hn, asn, lat) ==
    LET hops == all_hops(ips, pl)
    IN  [i \in 1..Len(hops) |-> ConsoleRow(ips, locs, pl, hn, asn, lat, hops[i])]

\* line 441: sum(1 for loss in packet_loss.values() if loss == 100)
UnreachableCount(pl) == Cardinality({hop \in DOMAIN pl : pl[hop] = 100})

\* lines 373-379: the hops of the map's unreachable overlay
UnreachableHops(ips, pl) ==
    sorted({hop \in DOMAIN pl :
              pl[hop] = 100 /\ hop \notin {ips[i].hop : i \in 1..Len(ips)}})

\* lines 578-599: one row of the CSV file. The latency is written with two
\* decimals and no unit; the location takes three columns
ExportRow(ips, locs, pl, hn, asn, lat, hop) ==
    LET ip == FirstIp(ips, hop)
        row == [hop |-> hop,
                ip |-> IF ip # None THEN ip ELSE "???",
                hostname |-> Get(hn, hop, ""),
                loss |-> Get(pl, hop, 0)]
        withLatency ==
            IF ip # None /\ Pair(hop, ip) \in DOMAIN lat
            THEN [latency |-> lat[Pair(hop, ip)]]
            ELSE [latency |-> NA]
        withLocation ==
            IF ip # None /\ ip \in DOMAIN location_lookup(locs)
            THEN [city |-> location_lookup(locs)[ip].city,
                  region |-> location_lookup(locs)[ip].region,
                  country |-> location_lookup(locs)[ip].country,
                  asn |-> location_lookup(locs)[ip].asn]
            ELSE [city |-> "Unknown", region |-> "Unknown",
                  country |-> "Unknown", asn |-> Get(asn, hop, "Unknown")]
    IN  row @@ withLatency @@ withLocation

\* variant: the file has a row only for the hops of the Hop list
save_route_data_addressed(ips, locs, pl, hn, asn, lat) ==
    LET hops == all_hops_addressed(ips, pl)
    IN  [i \in 1..Len(hops) |-> ExportRow(ips, locs, pl, hn, asn, lat, hops[i])]

\* save_route_data: the rows written after the header
save_route_data(ips, locs, pl, hn, asn, lat) ==
    LET hops == all_hops(ips, pl)
    IN  [i \in 1..Len(hops) |-> ExportRow(ips, locs, pl, hn, asn, lat, hops[i])]

\* file names: trace_map_<ts>.html, trace_data_<ts>.csv
FileName(kind, ts) == [kind |-> kind, ts |-> ts]

(* ------------------------------ state ---------------------------------- *)
VARIABLES
    pc,             \* position in main / __main__
    run,            \* number of the current run of the tool
    clock,          \* wall clock, in seconds
    typed,          \* lines the operator has entered at the input prompt
    trace_output,   \* lines collected so far
    ips_with_hops,  \* the Hop list
    packet_loss, hostnames, asn_info,
    latencies,      \* (hop, address) -> latency
    geo_i,          \* index of the next hop create_map looks up
    locations,      \* create_map's locations list
    requests,       \* geolocation requests issued, in order
    geolog,         \* the providers' answers to the lookups, when recorded
    unreachable_hops,   \* hops listed by the map's unreachable overlay
    unreachable_count,  \* 'Unreachable hops:' of the console summary
    msgs,           \* messages printed for the operator
    calls,          \* pipeline functions entered in this run
    raised,         \* the rendering step that raised, or None
    consoleRows,    \* hop table printed by print_route_summary
    exportRows,     \* rows written by save_route_data
    files,          \* files on disk: name and the run that wrote them
    overwritten,    \* names written a second time
    menu,           \* mainmenu.py was launched by this run
    \* prefixhealth.py, one call of PrefixHealth.process_prefixes
    prefixes,       \* the prefixes submitted, in order
    task,           \* per submitted call: its position and its outcome
    cache,          \* keys of self.cache
    api_ok,         \* per cache key: HTTP requests answered successfully
    results,        \* self.results
    summary,        \* display_summary was called
    \* mainmenu.py and the tools it launches
    procs,          \* the processes alive, each launched by the one before it
    exited,         \* the Exit option was chosen
    \* netmaskcalc.py, one call of process_network
    address_input,  \* the network given
    report          \* what process_network printed

traceVars == <<pc, run, clock, typed, trace_output, ips_with_hops, packet_loss,
               hostnames, asn_info, latencies, geo_i, locations, requests,
               geolog, unreachable_hops, unreachable_count, msgs, calls, raised,
               consoleRows, exportRows, files, overwritten, menu>>
healthVars == <<prefixes, task, cache, api_ok, results, summary>>
menuVars == <<procs, exited>>
netmaskVars == <<address_input, report>>
toolVars == <<healthVars, menuVars, netmaskVars>>

vars == <<traceVars, toolVars>>

inputVars == <<typed, trace_output>>
extractVars == <<ips_with_hops, packet_loss, hostnames, asn_info, latencies>>
geoVars == <<geo_i, locations, requests, geolog>>
renderVars == <<unreachable_hops, unreachable_count, consoleRows, exportRows>>
runVars == <<inputVars, extractVars, geoVars, renderVars, msgs, calls, raised>>
diskVars == <<run, clock, files, overwritten>>

FreshRun ==
    /\ pc = "collect"
    /\ typed = <<>>
    /\ trace_output = <<>>
    /\ ips_with_hops = <<>>
    /\ packet_loss = EmptyMap
    /\ hostnames = EmptyMap
    /\ asn_info = EmptyMap
    /\ latencies = EmptyMap
    /\ geo_i = 1
    /\ locations = <<>>
    /\ requests = <<>>
    /\ geolog = <<>>
    /\ unreachable_hops = <<>>
    /\ unreachable_count = 0
    /\ msgs = {}
    /\ calls = {}
    /\ raised = None
    /\ consoleRows = <<>>
    /\ exportRows = <<>>
    /\ menu = FALSE

\* ipinfo.py is started for the first time
InitTrace ==
    /\ FreshRun
    /\ run = 1
    /\ clock = 0
    /\ files = {}
    /\ overwritten = {}

\* no call of process_prefixes is under way
HealthIdle ==
    /\ prefixes = <<>>
    /\ task = <<>>
    /\ cache = {}
    /\ api_ok = EmptyMap
    /\ results = <<>>
    /\ summary = FALSE

\* no process of the menu is observed
MenuIdle == procs = <<>> /\ exited = FALSE

\* what process_network prints: the ends of the hosts range, each as an
\* offset from the network or the broadcast address, and the host count
Report(err, first, last, hosts) ==
    [error |-> err, first_address |-> first, last_address |-> last,
     total_hosts |-> hosts]

\* the number 2^e - m
Pow2(e, m) == [exp |-> e, minus |-> m]

Offset(base, n) == [of |-> base, plus |-> n]

NoNetwork == [valid |-> FALSE, version |-> 0, prefixlen |-> 0]
NoReport == Report(FALSE, Offset(None, 0), Offset(None, 0), Pow2(0, 0))

\* no call of process_network is under way
NetmaskIdle == address_input = NoNetwork /\ report = NoReport

Init ==
    /\ InitTrace
    /\ HealthIdle
    /\ MenuIdle
    /\ NetmaskIdle

(* ----------------------------- actions --------------------------------- *)
\* variant: the text is replaced by the line, not extended by it
Accumulate_last(trace, line) == <<line>>

\* line 618: trace_output += line + "\n"
Accumulate(trace, line) == Append(trace, line)

\* lines 617-618: input() returns a line of the given kind of trace
ReadLineFrom(ls) ==
    /\ pc = "collect"
    /\ Len(typed) < MaxLines
    /\ \E l \in ls :
         /\ typed' = Append(typed, l)
         /\ trace_output' = Accumulate(trace_output, l)
    /\ UNCHANGED <<pc, extractVars, geoVars, renderVars, msgs, calls, raised,
                   diskVars, menu>>
    /\ UNCHANGED toolVars

ReadLine == ReadLineFrom(Lines)

\* lines 619-628: KeyboardInterrupt or EOFError ends the collection
EndInput ==
    /\ pc = "collect"
    /\ IF IsBlank(trace_output)
       THEN /\ msgs' = msgs \cup {"no_input"}
            /\ pc' = "prompt"
       ELSE /\ msgs' = msgs
            /\ pc' = "extract"
    /\ UNCHANGED <<inputVars, extractVars, geoVars, renderVars, calls, raised,
                   diskVars, menu>>
    /\ UNCHANGED toolVars

\* lines 631-647: extraction, the Extraction-empty exit, the latencies,
\* entry to create_map
Extract ==
    /\ pc = "extract"
    /\ \E dns \in DnsOutcomes :
         LET r == extract_ips_from_trace(trace_output, dns)
         IN  /\ ips_with_hops' = r.ips
             /\ packet_loss' = r.packet_loss
             /\ hostnames' = r.hostnames
             /\ asn_info' = r.asn_info
             /\ IF r.ips = <<>>
                THEN /\ msgs' = msgs \cup {"no_ips"}
                     /\ calls' = calls \cup {"extract_ips_from_trace"}
                     /\ latencies' = latencies
                     /\ pc' = "prompt"
                ELSE /\ msgs' = msgs
                     /\ calls' = calls \cup {"extract_ips_from_trace", "create_map"}
                     /\ latencies' = extract_latencies(trace_output, r.ips)
                     /\ pc' = "geo"
    /\ UNCHANGED <<inputVars, geoVars, renderVars, raised, diskVars, menu>>
    /\ UNCHANGED toolVars

\* the except clause of main, lines 671-672
Fail(step) ==
    /\ raised' = step
    /\ msgs' = msgs \cup {"error"}
    /\ pc' = "prompt"

\* lines 238-247: one iteration of create_map's lookup loop; record says
\* whether the providers' answers are kept in geolog
GeoIter(record) ==
    /\ pc = "geo"
    /\ geo_i <= Len(ips_with_hops)
    /\ \E p \in PrimaryResp, f \in FallbackResp :
         LET h == ips_with_hops[geo_i]
             g == get_location(h.ip, p, f)
         IN  IF g.raises
             THEN /\ Fail("get_location")
                  /\ UNCHANGED geoVars
             ELSE /\ requests' = requests \o
                        [k \in 1..Len(g.reqs) |-> [provider |-> g.reqs[k], ip |-> h.ip]]
                  /\ locations' = IF Mappable(g.loc)
                                  THEN Append(locations,
                                         [ip |-> h.ip, hop |-> h.hop,
                                          source |-> g.loc.source,
                                          country |-> g.loc.country,
                                          region |-> g.loc.region,
                                          city |-> g.loc.city,
                                          asn |-> g.loc.asn])
                                  ELSE locations
                  /\ geolog' = IF record
                               THEN Append(geolog,
                                      [ip |-> h.ip, hop |-> h.hop,
                                       primary |-> IF g.reqs = <<>> THEN None ELSE p,
                                       fallback |-> IF Len(g.reqs) < 2 THEN None ELSE f])
                               ELSE geolog
                  /\ geo_i' = geo_i + 1
                  /\ UNCHANGED <<pc, msgs, raised>>
    /\ UNCHANGED <<inputVars, extractVars, renderVars, calls, diskVars, menu>>
    /\ UNCHANGED toolVars

GeoStep == GeoIter(FALSE)

\* the same iteration, observed together with the providers' answers
GeoLookup == GeoIter(TRUE)

\* open(name, 'w') / m.save(name), the name made of datetime.now() in seconds
WriteFile(kind) ==
    /\ files' = {f \in files : f.name # FileName(kind, clock)}
                    \cup {[name |-> FileName(kind, clock), run |-> run]}
    /\ overwritten' = IF \E f \in files : f.name = FileName(kind, clock)
                      THEN overwritten \cup {FileName(kind, clock)}
                      ELSE overwritten

\* lines 249-428 and 650: the map is built and saved, then the summary starts
SaveMap ==
    /\ pc = "geo"
    /\ geo_i > Len(ips_with_hops)
    /\ \/ /\ WriteFile("map")
          /\ unreachable_hops' = UnreachableHops(ips_with_hops, packet_loss)
          /\ calls' = calls \cup {"print_route_summary"}
          /\ pc' = "console"
          /\ UNCHANGED <<raised, msgs>>
       \/ /\ Fail("create_map")
          /\ UNCHANGED <<files, overwritten, calls, unreachable_hops>>
    /\ UNCHANGED <<run, clock, inputVars, extractVars, geoVars, unreachable_count,
                   consoleRows, exportRows, menu>>
    /\ UNCHANGED toolVars

\* lines 650-653: the console summary is printed, then the export starts
PrintSummary ==
    /\ pc = "console"
    /\ \/ /\ unreachable_count' = UnreachableCount(packet_loss)
          /\ consoleRows' = print_route_summary(ips_with_hops, locations,
                                    packet_loss, hostnames, asn_info, latencies)
          /\ calls' = calls \cup {"save_route_data"}
          /\ pc' = "export"
          /\ UNCHANGED <<raised, msgs>>
       \/ /\ Fail("print_route_summary")
          /\ UNCHANGED <<unreachable_count, consoleRows, calls>>
    /\ UNCHANGED <<inputVars, extractVars, geoVars, unreachable_hops, exportRows,
                   diskVars, menu>>
    /\ UNCHANGED toolVars

\* lines 562-602 and 655-669: the CSV file is written, the browser is opened
SaveData ==
    /\ pc = "export"
    /\ \/ /\ WriteFile("data")
          /\ exportRows' = save_route_data(ips_with_hops, locations, packet_loss,
                                           hostnames, asn_info, latencies)
          /\ pc' = "prompt"
          /\ UNCHANGED <<raised, msgs>>
       \/ /\ Fail("save_route_data")
          /\ UNCHANGED <<files, overwritten, exportRows>>
    /\ UNCHANGED <<run, clock, inputVars, extractVars, geoVars, unreachable_hops,
                   unreachable_count, consoleRows, calls, menu>>
    /\ UNCHANGED toolVars

\* KeyboardInterrupt outside the input loop: not an Exception, nothing catches it
Interrupt ==
    /\ pc \in {"extract", "geo", "console", "export"}
    /\ pc' = "dead"
    /\ UNCHANGED <<runVars, diskVars, menu>>
    /\ UNCHANGED toolVars

\* lines 626-627, 635-636, 675-678 and 683-684: 'Press ENTER to exit' in main
Prompt ==
    /\ pc = "prompt"
    /\ \E key \in {"enter", "eof", "interrupt"} :
         CASE key = "enter" -> /\ menu' = TRUE
                               /\ pc' = "done"
                               /\ msgs' = msgs
           [] key = "eof" -> /\ menu' = menu
                             /\ pc' = "fatal_prompt"
                             /\ msgs' = msgs \cup {"fatal"}
           [] OTHER -> /\ menu' = menu
                       /\ pc' = "dead"
                       /\ msgs' = msgs
    /\ UNCHANGED <<inputVars, extractVars, geoVars, renderVars, calls, raised,
                   diskVars>>
    /\ UNCHANGED toolVars

\* lines 685-686: 'Press ENTER to exit' in the handler of __main__
FatalPrompt ==
    /\ pc = "fatal_prompt"
    /\ \E key \in {"enter", "eof", "interrupt"} :
         IF key = "enter"
         THEN menu' = TRUE /\ pc' = "done"
         ELSE menu' = menu /\ pc' = "dead"
    /\ UNCHANGED <<runVars, diskVars>>
    /\ UNCHANGED toolVars

\* the operator starts the tool again from the menu
NextRun ==
    /\ pc = "done"
    /\ run < MaxRuns
    /\ run' = run + 1
    /\ pc' = "collect"
    /\ typed' = <<>>
    /\ trace_output' = <<>>
    /\ ips_with_hops' = <<>>
    /\ packet_loss' = EmptyMap
    /\ hostnames' = EmptyMap
    /\ asn_info' = EmptyMap
    /\ latencies' = EmptyMap
    /\ geo_i' = 1
    /\ locations' = <<>>
    /\ requests' = <<>>
    /\ geolog' = <<>>
    /\ unreachable_hops' = <<>>
    /\ unreachable_count' = 0
    /\ msgs' = {}
    /\ calls' = {}
    /\ raised' = None
    /\ consoleRows' = <<>>
    /\ exportRows' = <<>>
    /\ menu' = FALSE
    /\ UNCHANGED <<clock, files, overwritten>>
    /\ UNCHANGED toolVars

\* a second of wall-clock time passes
Tick ==
    /\ clock < MaxClock
    /\ clock' = clock + 1
    /\ UNCHANGED <<pc, runVars, run, files, overwritten, menu>>
    /\ UNCHANGED toolVars

\* one run of the tool
Next ==
    \/ ReadLine
    \/ EndInput
    \/ Extract
    \/ GeoStep
    \/ SaveMap
    \/ PrintSummary
    \/ SaveData
    \/ Interrupt
    \/ Prompt
    \/ FatalPrompt

Spec == Init /\ [][Next]_vars

\* successive runs of the tool, in wall-clock time
NextRuns ==
    \/ Next
    \/ NextRun
    \/ Tick

SpecRuns == Init /\ [][NextRuns]_vars

\* the steps after the input collection
Pipeline ==
    \/ EndInput
    \/ Extract
    \/ SaveMap
    \/ PrintSummary
    \/ SaveData
    \/ Interrupt
    \/ Prompt
    \/ FatalPrompt

\* one run on an mtr report without AS column, the lookups observed
ReadGeoLine == ReadLineFrom(GeoLines)

NextGeo ==
    \/ ReadGeoLine
    \/ GeoLookup
    \/ Pipeline

SpecGeo == Init /\ [][NextGeo]_vars

\* lines 51 and 84: requests.get is called without timeout=, so the call
\* returns only when the provider answers or the connection fails. Here the
\* provider accepts the connection and never answers: the primary one, or the
\* fallback one after the primary failed or gave no coordinates
GeoHang ==
    /\ pc = "geo"
    /\ geo_i <= Len(ips_with_hops)
    /\ \E p \in PrimaryResp, f \in FallbackResp :
         LET h == ips_with_hops[geo_i]
             g == get_location(h.ip, p, f)
         IN  /\ g.reqs # <<>>
             /\ \E n \in 1..Len(g.reqs) :
                   requests' = requests \o
                       [k \in 1..n |-> [provider |-> g.reqs[k], ip |-> h.ip]]
    /\ pc' = "blocked"
    /\ UNCHANGED <<inputVars, extractVars, geo_i, locations, geolog, renderVars,
                   msgs, calls, raised, diskVars, menu>>
    /\ UNCHANGED toolVars

\* one run on an mtr report whose lookups may meet a silent provider
NextHang ==
    \/ ReadGeoLine
    \/ GeoStep
    \/ GeoHang
    \/ Pipeline

SpecHang == Init /\ [][NextHang]_vars

\* one run on a trace with latency samples and lossy hops
ReadProbeLine == ReadLineFrom(ProbeLines)

NextProbe ==
    \/ ReadProbeLine
    \/ GeoStep
    \/ Pipeline

SpecProbe == Init /\ [][NextProbe]_vars

(* --------------------------- prefixhealth.py --------------------------- *)
MAX_WORKERS == 5

\* longest list of equal prefixes, longest list of different prefixes
MaxPrefixes == 6
MaxMixed == 2

\* two prefixes with the same network address, one with host bits set, and
\* two for which the servers hold unusual data
PrefixSamples ==
    {"192.0.2.0/24", "192.0.2.0/25", "192.0.2.1/24", "198.51.100.0/24",
     "203.0.113.0/24"}

\* the same prefix entered up to MaxPrefixes times, or a few of any kind
PrefixLists ==
    {[i \in 1..n |-> "192.0.2.0/24"] : n \in 1..MaxPrefixes}
    \cup UNION {[1..n -> PrefixSamples] : n \in 1..MaxMixed}

\* ipaddress.ip_network(prefix), strict: host bits set raise ValueError
ip_network(prefix) ==
    CASE prefix \in {"192.0.2.0/24", "192.0.2.0/25"} ->
            [valid |-> TRUE, network_address |-> "192.0.2.0"]
      [] prefix = "198.51.100.0/24" ->
            [valid |-> TRUE, network_address |-> "198.51.100.0"]
      [] prefix = "203.0.113.0/24" ->
            [valid |-> TRUE, network_address |-> "203.0.113.0"]
      [] OTHER -> [valid |-> FALSE, network_address |-> None]

is_valid_prefix(prefix) == ip_network(prefix).valid

\* line 81: cache_key = f"bgpview_{ip}"
bgpview_key(prefix) == <<"bgpview", ip_network(prefix).network_address>>

\* the data the servers hold: bgpview lists for 198.51.100.0 a prefix entry
\* without the field 'prefix', the RPKI validator answers "state": null for
\* 203.0.113.0/24 and has no ROA for the others
bgpview_data(prefix) ==
    IF prefix = "198.51.100.0/24" THEN "entry_without_prefix" ELSE "no_entries"

rpki_state(prefix) == IF prefix = "203.0.113.0/24" THEN "null" ELSE "unknown"

\* an entry of self.results
HealthResult(prefix) == [prefix |-> prefix, error |-> None, rpki |-> rpki_state(prefix)]
ErrorEntry(prefix, text) == [prefix |-> prefix, error |-> text, rpki |-> None]
NoResult == [prefix |-> None, error |-> None, rpki |-> None]

\* a submitted call: queued, check (testing the cache), request (sleeping or
\* waiting for the HTTP answer), finished, collected (seen by as_completed)
Task(at, raised_, result) == [pc |-> at, raised |-> raised_, result |-> result]

\* lines 249-282 once check_bgpview has its answer: pfx['prefix'] at 256
\* raises KeyError on an entry without that field
process_prefix(prefix, bgp_ok) ==
    IF bgp_ok /\ bgpview_data(prefix) = "entry_without_prefix"
    THEN Task("finished", TRUE, NoResult)
    ELSE Task("finished", FALSE, HealthResult(prefix))

\* line 397: rpki_state.upper() in display_prefix_health
display_raises(result) == result.error = None /\ result.rpki = "null"

\* the calls that occupy a worker thread
Running(t) == {i \in DOMAIN t : t[i].pc \in {"check", "request"}}

\* variant: a thread for every submitted call
WorkerFree_any(t) == TRUE

\* line 335: ThreadPoolExecutor(max_workers=MAX_WORKERS)
WorkerFree(t) == Cardinality(Running(t)) < MAX_WORKERS

\* lines 326-338: self.results = [] and every call submitted
InitHealth ==
    /\ InitTrace
    /\ MenuIdle
    /\ NetmaskIdle
    /\ prefixes \in PrefixLists
    /\ task = [i \in 1..Len(prefixes) |-> Task("queued", FALSE, NoResult)]
    /\ cache = {}
    /\ api_ok = EmptyMap
    /\ results = <<>>
    /\ summary = FALSE

\* a free worker takes the oldest queued call; lines 233-237 return at once
\* for an invalid prefix
StartTask ==
    /\ \E i \in DOMAIN task :
         /\ task[i].pc = "queued"
         /\ \A j \in 1..(i - 1) : task[j].pc # "queued"
         /\ WorkerFree(task)
         /\ task' = [task EXCEPT ![i] =
                IF is_valid_prefix(prefixes[i])
                THEN Task("check", FALSE, NoResult)
                ELSE Task("finished", FALSE,
                          ErrorEntry(prefixes[i], "Invalid prefix format"))]
    /\ UNCHANGED <<prefixes, cache, api_ok, results, summary>>
    /\ UNCHANGED <<traceVars, menuVars, netmaskVars>>

\* lines 53-54: the cache test of make_api_request
CacheCheck ==
    /\ \E i \in DOMAIN task :
         /\ task[i].pc = "check"
         /\ task' = [task EXCEPT ![i] =
                IF bgpview_key(prefixes[i]) \in cache
                THEN process_prefix(prefixes[i], TRUE)
                ELSE Task("request", FALSE, NoResult)]
    /\ UNCHANGED <<prefixes, cache, api_ok, results, summary>>
    /\ UNCHANGED <<traceVars, menuVars, netmaskVars>>

\* lines 57-71: the HTTP answer arrives; a successful one is cached
Respond ==
    /\ \E i \in DOMAIN task, resp \in {"ok", "error"} :
         /\ task[i].pc = "request"
         /\ IF resp = "ok"
            THEN /\ cache' = cache \cup {bgpview_key(prefixes[i])}
                 /\ api_ok' = Put(api_ok, bgpview_key(prefixes[i]),
                                  Get(api_ok, bgpview_key(prefixes[i]), 0) + 1)
            ELSE UNCHANGED <<cache, api_ok>>
         /\ task' = [task EXCEPT ![i] = process_prefix(prefixes[i], resp = "ok")]
    /\ UNCHANGED <<prefixes, results, summary>>
    /\ UNCHANGED <<traceVars, menuVars, netmaskVars>>

\* lines 341-352: as_completed yields a finished call
Collect ==
    /\ \E i \in DOMAIN task :
         /\ task[i].pc = "finished"
         /\ task' = [task EXCEPT ![i].pc = "collected"]
         /\ results' =
              IF task[i].raised
              THEN Append(results, ErrorEntry(prefixes[i], "Processing error"))
              ELSE IF display_raises(task[i].result)
              THEN Append(Append(results, task[i].result),
                          ErrorEntry(prefixes[i], "Processing error"))
              ELSE Append(results, task[i].result)
    /\ UNCHANGED <<prefixes, cache, api_ok, summary>>
    /\ UNCHANGED <<traceVars, menuVars, netmaskVars>>

\* lines 353-355: the with block ends when every call is done, then the
\* summary is displayed
DisplaySummary ==
    /\ ~summary
    /\ Running(task) = {}
    /\ \A i \in DOMAIN task : task[i].pc = "collected"
    /\ summary' = TRUE
    /\ UNCHANGED <<prefixes, task, cache, api_ok, results>>
    /\ UNCHANGED <<traceVars, menuVars, netmaskVars>>

NextHealth ==
    \/ StartTask
    \/ CacheCheck
    \/ Respond
    \/ Collect
    \/ DisplaySummary

SpecHealth == InitHealth /\ [][NextHealth]_vars

(* ------------------- mainmenu.py and the tools' exits ------------------ *)
\* most processes alive at once
MaxProcs == 5

Menu == "mainmenu.py"
\* tools that ask whether to go on
LoopTools == {"netmaskcalc.py", "nlnog_discovery.py"}
\* tools that run once
OnceTools == {"ipinfo.py", "prefixhealth.py"}
Tools == LoopTools \cup OnceTools

\* a process: its script, where it is, and whether its operator declined to
\* go on. A menu is at "menu" (waiting for the option number) or "launch"
\* (inside os.system); a tool is at "work", "prompt", "ask" or "relaunch"
\* (inside os.system("python3 mainmenu.py"))
Proc(script, at, declined) == [script |-> script, pc |-> at, declined |-> declined]

\* os.system returns when the command has ended, so only the youngest
\* process runs
Top == procs[Len(procs)]
Pop == SubSeq(procs, 1, Len(procs) - 1)
SetTop(at, declined) ==
    [procs EXCEPT ![Len(procs)] = Proc(Top.script, at, declined)]
TopIs(script, at) ==
    procs # <<>> /\ Top.script = script /\ Top.pc = at

\* python3 mainmenu.py is started from the shell
InitMenu ==
    /\ InitTrace
    /\ HealthIdle
    /\ NetmaskIdle
    /\ procs = <<Proc(Menu, "menu", FALSE)>>
    /\ exited = FALSE

\* mainmenu.py 174-182 and 129-137: a tool is chosen and launched
LaunchTool ==
    /\ TopIs(Menu, "menu")
    /\ Len(procs) < MaxProcs
    /\ \E t \in Tools :
         procs' = Append(SetTop("launch", FALSE),
                         Proc(t, IF t \in LoopTools THEN "prompt" ELSE "work", FALSE))
    /\ UNCHANGED exited
    /\ UNCHANGED <<traceVars, healthVars, netmaskVars>>

\* mainmenu.py 176-178: Exit (or Ctrl+C at the option prompt, 125-127)
ChooseExit ==
    /\ TopIs(Menu, "menu")
    /\ procs' = Pop
    /\ exited' = TRUE
    /\ UNCHANGED <<traceVars, healthVars, netmaskVars>>

\* mainmenu.py 139-142 and 184-185: the tool has ended, the loop shows the
\* menu again
ShowMenuAgain ==
    /\ TopIs(Menu, "launch")
    /\ procs' = SetTop("menu", FALSE)
    /\ UNCHANGED exited
    /\ UNCHANGED <<traceVars, healthVars, netmaskVars>>

\* ipinfo.py 674-678, prefixhealth.py 559-565: the tool is through and
\* starts a menu
ToolDone ==
    /\ \E t \in OnceTools : TopIs(t, "work")
    /\ Len(procs) < MaxProcs
    /\ procs' = Append(SetTop("relaunch", FALSE), Proc(Menu, "menu", FALSE))
    /\ UNCHANGED exited
    /\ UNCHANGED <<traceVars, healthVars, netmaskVars>>

\* ipinfo.py 675: Ctrl+C at 'Press ENTER to exit' ends the tool, no menu
\* is started
ToolAbort ==
    /\ TopIs("ipinfo.py", "work")
    /\ procs' = Pop
    /\ UNCHANGED exited
    /\ UNCHANGED <<traceVars, healthVars, netmaskVars>>

\* the menu a tool started has ended: ipinfo.py 678, prefixhealth.py 565
\* are the last statement of main, nlnog_discovery.py 92 is break
ScriptEnds ==
    /\ \E t \in OnceTools \cup {"nlnog_discovery.py"} : TopIs(t, "relaunch")
    /\ procs' = Pop
    /\ UNCHANGED exited
    /\ UNCHANGED <<traceVars, healthVars, netmaskVars>>

\* netmaskcalc.py 92-108, nlnog_discovery.py 70-88: the prefixes are read
\* and processed, the tool asks whether to go on
PrefixesEntered ==
    /\ \E t \in LoopTools : TopIs(t, "prompt")
    /\ procs' = SetTop("ask", Top.declined)
    /\ UNCHANGED exited
    /\ UNCHANGED <<traceVars, healthVars, netmaskVars>>

\* netmaskcalc.py 112-113, nlnog_discovery.py 90: the answer is 'y'
AnswerYes ==
    /\ \E t \in LoopTools : TopIs(t, "ask")
    /\ procs' = SetTop("prompt", Top.declined)
    /\ UNCHANGED exited
    /\ UNCHANGED <<traceVars, healthVars, netmaskVars>>

\* netmaskcalc.py 110-111 and 114-115, nlnog_discovery.py 90-91: any other
\* answer starts a menu
Decline ==
    /\ \E t \in LoopTools : TopIs(t, "ask")
    /\ Len(procs) < MaxProcs
    /\ procs' = Append(SetTop("relaunch", TRUE), Proc(Menu, "menu", FALSE))
    /\ UNCHANGED exited
    /\ UNCHANGED <<traceVars, healthVars, netmaskVars>>

\* netmaskcalc.py 111 and 115 are followed by the next round of while True
LoopAgain ==
    /\ TopIs("netmaskcalc.py", "relaunch")
    /\ procs' = SetTop("prompt", Top.declined)
    /\ UNCHANGED exited
    /\ UNCHANGED <<traceVars, healthVars, netmaskVars>>

NextMenu ==
    \/ LaunchTool
    \/ ChooseExit
    \/ ShowMenuAgain
    \/ ToolDone
    \/ ToolAbort
    \/ ScriptEnds
    \/ PrefixesEntered
    \/ AnswerYes
    \/ Decline
    \/ LoopAgain

SpecMenu == InitMenu /\ [][NextMenu]_vars

(* ---------------------------- netmaskcalc.py --------------------------- *)
\* ipaddress.ip_network(address_input, strict=False): a text that is no
\* network raises ValueError; host bits are masked off
Networks ==
    {[valid |-> TRUE, version |-> 4, prefixlen |-> n] : n \in 0..32}
    \cup {[valid |-> TRUE, version |-> 6, prefixlen |-> n] : n \in 0..128}
    \cup {[valid |-> FALSE, version |-> 4, prefixlen |-> 0]}

max_prefixlen(network) == IF network.version = 4 THEN 32 ELSE 128

\* network.num_addresses
num_addresses(network) == Pow2(max_prefixlen(network) - network.prefixlen, 0)

\* lines 27-48 and 87-88
process_network(network) ==
    IF ~network.valid
    THEN Report(TRUE, Offset(None, 0), Offset(None, 0), Pow2(0, 0))
    ELSE IF network.prefixlen = 0
    THEN Report(FALSE, Offset("network", 0), Offset("broadcast", 0),
                num_addresses(network))
    ELSE IF network.prefixlen = 32
              \/ (network.prefixlen = 128 /\ network.version = 6)
    THEN Report(FALSE, Offset("network", 0), Offset("network", 0), Pow2(0, 0))
    ELSE IF network.prefixlen = 31
              \/ (network.prefixlen = 127 /\ network.version = 6)
    THEN Report(FALSE, Offset("network", 0), Offset("broadcast", 0), Pow2(1, 0))
    ELSE Report(FALSE, Offset("network", 1), Offset("broadcast", -1),
                Pow2(num_addresses(network).exp, 2))

InitNetmask ==
    /\ InitTrace
    /\ HealthIdle
    /\ MenuIdle
    /\ address_input \in Networks
    /\ report = NoReport

\* line 105: process_network(prefix)
ProcessNetwork ==
    /\ report = NoReport
    /\ report' = process_network(address_input)
    /\ UNCHANGED address_input
    /\ UNCHANGED <<traceVars, healthVars, menuVars>>

NextNetmask == ProcessNetwork

SpecNetmask == InitNetmask /\ [][NextNetmask]_vars

(* ------------------------------ claims --------------------------------- *)
Extracted == "extract_ips_from_trace" \in calls
TraceIdx == 1..Len(trace_output)
HopsIdx == 1..Len(ips_with_hops)
IsFull(l) == l.fmt = "mtr_full"

\* C1: when at least one line matches the full-fidelity pattern, every Hop and
\* every packet-loss, hostname and AS entry comes from a full-fidelity line;
\* no permissive family and no standalone pattern contributes.
C1_Family1Exclusive ==
    (Extracted /\ \E i \in TraceIdx : IsFull(trace_output[i])) =>
        /\ \A k \in HopsIdx : \E i \in TraceIdx :
              /\ IsFull(trace_output[i])
              /\ trace_output[i].hop = ips_with_hops[k].hop
              /\ \/ trace_output[i].host = ips_with_hops[k].ip
                 \/ trace_output[i].host \in HostNames
        /\ \A h \in DOMAIN packet_loss : \E i \in TraceIdx :
              /\ IsFull(trace_output[i])
              /\ trace_output[i].hop = h
              /\ trace_output[i].loss = packet_loss[h]
        /\ \A h \in DOMAIN hostnames : \E i \in TraceIdx :
              /\ IsFull(trace_output[i])
              /\ trace_output[i].hop = h
              /\ trace_output[i].host = hostnames[h]
        /\ \A h \in DOMAIN asn_info : \E i \in TraceIdx :
              /\ IsFull(trace_output[i])
              /\ trace_output[i].hop = h
              /\ "AS" \o trace_output[i].asn = asn_info[h]

\* a full-fidelity line that yielded a Hop next to a line only a permissive
\* family matches
C1_Witness ==
    /\ Extracted
    /\ ips_with_hops # <<>>
    /\ \E i, j \in TraceIdx :
          /\ IsFull(trace_output[i])
          /\ ~IsFull(trace_output[j])
          /\ trace_output[j].host \in V4Shaped
          /\ is_valid_ip(trace_output[j].host)

\* C2: the Hop list never holds two entries for the same address.
C2_NoDuplicateAddress ==
    \A i, j \in HopsIdx :
        i # j => ip_address(ips_with_hops[i].ip) # ip_address(ips_with_hops[j].ip)

\* addresses get_location must not look up
NotLookedUp(ip) ==
    \/ ip \notin (V4Shaped \ {"999.9.9.9"}) \cup V6Literal
    \/ ip \in {"192.168.1.1", "127.0.0.1", "169.254.0.1", "0.0.0.0"}

\* C3: no request goes to either provider for a private, loopback,
\* link-local or unspecified address or for an invalid string, and no such
\* address is among the resolved locations.
C3_NoRequestForLocalAddress ==
    /\ \A k \in 1..Len(requests) : ~NotLookedUp(requests[k].ip)
    /\ \A k \in 1..Len(locations) : ~NotLookedUp(locations[k].ip)

\* create_map went through a Hop list holding a private address and a public
\* one, and the public one was requested
C3_Witness ==
    /\ pc = "console"
    /\ requests # <<>>
    /\ \E k \in HopsIdx : ips_with_hops[k].ip \in {"127.0.0.1", "169.254.0.1", "0.0.0.0"}

\* a full-fidelity line with host ??? and 100.0% loss
IsUnknownHop(l) == IsFull(l) /\ l.host = "???" /\ l.loss = 100

HasRow(rows, hop, ip) == \E r \in 1..Len(rows) : rows[r].hop = hop /\ rows[r].ip = ip

C5_MenuAlwaysLaunched ==
    pc \in {"done", "dead"} => menu

\* C6: when create_map raises, the console summary and the export are still
\* attempted; when the console summary raises, the export is still attempted.
C6_ArtifactsIndependent ==
    pc \in {"done", "dead"} =>
        /\ raised = "create_map" =>
              {"print_route_summary", "save_route_data"} \subseteq calls
        /\ raised = "print_route_summary" => "save_route_data" \in calls

\* the valid addresses among the captures of a permissive family
ValidOf(pairs) == {pairs[k].ip : k \in {n \in 1..Len(pairs) : is_valid_ip(pairs[n].ip)}}

\* the valid literal addresses on the full-fidelity lines
ValidOfFull(tr) ==
    {tr[i].host : i \in {n \in 1..Len(tr) : IsFull(tr[n]) /\ is_valid_ip(tr[n].host)}}

ValidOfSelected(tr) ==
    IF \E i \in 1..Len(tr) : IsFull(tr[i]) THEN ValidOfFull(tr)
    ELSE IF \E i \in 1..Len(tr) : tr[i].fmt = "mtr_detailed"
    THEN ValidOf(SeqOfPairs(SelectSeq(tr, LAMBDA l : l.fmt = "mtr_detailed")))
    ELSE IF \E i \in 1..Len(tr) : tr[i].fmt = "mtr_plain"
    THEN ValidOf(SeqOfPairs(SelectSeq(tr, LAMBDA l : l.fmt = "mtr_plain")))
    ELSE IF \E i \in 1..Len(tr) : tr[i].fmt = "traceroute"
    THEN ValidOf(SeqOfPairs(SelectSeq(tr, LAMBDA l : l.fmt = "traceroute")))
    ELSE ValidOf(SeqOfPairs(SelectSeq(tr, LAMBDA l : l.fmt = "bare")))

C8_NoInputStopsPipeline ==
    (pc # "collect" /\ \A i \in TraceIdx : trace_output[i].fmt = "blank") =>
        /\ "no_input" \in msgs
        /\ calls = {}
        /\ requests = <<>>
        /\ consoleRows = <<>>
        /\ exportRows = <<>>
        /\ \A f \in files : f.run # run

\* whitespace-only input was reported
C8_Witness ==
    /\ pc = "prompt"
    /\ "no_input" \in msgs
    /\ trace_output # <<>>

\* C9: no run writes its map or data file under a name an earlier write used.
C9_NoOverwrite ==
    overwritten = {}

StrictlyAscending(rows) ==
    \A a, b \in 1..Len(rows) : a < b => rows[a].hop < rows[b].hop

\* C10: the rows of the hop table and of the export are in strictly
\* ascending hop-index order.
C10_RowsAscending ==
    /\ StrictlyAscending(consoleRows)
    /\ StrictlyAscending(exportRows)

\* both artifacts produced from a Hop list discovered out of index order
C10_Witness ==
    /\ Len(consoleRows) > 1
    /\ Len(exportRows) > 1
    /\ \E a, b \in HopsIdx : a < b /\ ips_with_hops[a].hop > ips_with_hops[b].hop

\* C11: the markers and the path of the map follow ascending hop index, also
\* when the trace lists the hops out of index order.
C11_MapInHopOrder ==
    \A i, j \in 1..Len(locations) :
        i < j => locations[i].hop <= locations[j].hop

LogIdx == 1..Len(geolog)
HasLocation(ip, hop) ==
    \E j \in 1..Len(locations) : locations[j].ip = ip /\ locations[j].hop = hop
Requested(provider, ip) ==
    \E j \in 1..Len(requests) : requests[j] = [provider |-> provider, ip |-> ip]

\* C12: a failure of either provider stays inside get_location: after a
\* failed primary the fallback is queried, after a failed fallback the hop is
\* unresolved, and no lookup raises into the pipeline.
C12_ProviderFailureContained ==
    /\ raised # "get_location"
    /\ \A k \in LogIdx :
         /\ geolog[k].primary \in {"error", "no_loc"} =>
                /\ geolog[k].fallback # None
                /\ Requested("fallback", geolog[k].ip)
         /\ geolog[k].fallback \in {"error", "fail"} =>
                ~HasLocation(geolog[k].ip, geolog[k].hop)
    /\ (pc = "geo" /\ raised = None) => Len(geolog) = geo_i - 1

C12_Witness ==
    /\ pc = "export"
    /\ \E k \in LogIdx : geolog[k].primary = "error" /\ geolog[k].fallback = "error"
    /\ \E k \in LogIdx : geolog[k].primary = "no_loc" /\ geolog[k].fallback = "fail"

\* C13: a run never ends while lookups are outstanding: an interrupt during
\* the lookups is followed by the rendering of what had been resolved.
C13_InterruptedLookupsStillRender ==
    ~(pc = "dead" /\ "create_map" \in calls /\ geo_i <= Len(ips_with_hops))

\* C14: ending the input by interrupt or end-of-stream is no error, and the
\* text handed to the extraction is exactly the lines entered, in order; with
\* non-whitespace content the run goes on to the extraction.
C14_InputEndsCleanly ==
    /\ trace_output = typed
    /\ (pc # "collect" /\ \E i \in 1..Len(typed) : typed[i].fmt # "blank") =>
          /\ "no_input" \notin msgs
          /\ pc \in {"extract", "dead"} \/ Extracted
          /\ pc = "extract" => (msgs = {} /\ raised = None)

C14_Witness ==
    /\ Extracted
    /\ Len(typed) = 2
    /\ typed[1] # typed[2]
    /\ Len(ips_with_hops) = 2

\* the lookup gave both coordinates
Resolved(e) == e.primary = "ok" \/ e.fallback = "success"
MapWritten == "print_route_summary" \in calls

\* C15: the map has exactly one marker for every Hop whose lookup gave both
\* coordinates and none for any other hop; a hop with a private address stays
\* in the Hop list and in the rows but has no marker.
C15_OneMarkerPerResolvedHop ==
    MapWritten =>
        /\ Len(geolog) = Len(ips_with_hops)
        /\ \A k \in LogIdx :
             /\ geolog[k].ip = ips_with_hops[k].ip
             /\ Resolved(geolog[k]) <=> HasLocation(geolog[k].ip, geolog[k].hop)
        /\ Len(locations) = Cardinality({k \in LogIdx : Resolved(geolog[k])})
        /\ \A k \in HopsIdx :
             is_private(ips_with_hops[k].ip) =>
                /\ ~HasLocation(ips_with_hops[k].ip, ips_with_hops[k].hop)
                /\ consoleRows # <<>> =>
                      \E i \in 1..Len(consoleRows) :
                          consoleRows[i].hop = ips_with_hops[k].hop
                /\ exportRows # <<>> =>
                      \E i \in 1..Len(exportRows) :
                          exportRows[i].hop = ips_with_hops[k].hop

C15_Witness ==
    /\ exportRows # <<>>
    /\ ips_with_hops = <<Pair(1, "192.168.1.1"), Pair(2, "8.8.8.8")>>
    /\ Len(locations) = 1
    /\ locations[1].hop = 2

RECURSIVE ExpectedRequests(_)
\* the requests the logged answers call for: none for an address that is
\* skipped, the primary alone when it answered with coordinates, else both
ExpectedRequests(log) ==
    IF log = <<>> THEN <<>>
    ELSE LET e == Head(log)
             own == IF NotLookedUp(e.ip) THEN <<>>
                    ELSE IF e.primary = "ok"
                    THEN <<[provider |-> "primary", ip |-> e.ip]>>
                    ELSE <<[provider |-> "primary", ip |-> e.ip],
                           [provider |-> "fallback", ip |-> e.ip]>>
         IN  own \o ExpectedRequests(Tail(log))

\* C16: for a public address the primary provider is queried first and the
\* fallback if and only if the primary failed or gave no coordinates, each
\* once per lookup; a fallback answer is used only when its status is success.
C16_PrimaryThenFallback ==
    /\ requests = ExpectedRequests(geolog)
    /\ \A k \in LogIdx :
         /\ geolog[k].fallback # None <=> geolog[k].primary \in {"error", "no_loc"}
         /\ geolog[k].primary = None <=> NotLookedUp(geolog[k].ip)
    /\ \A j \in 1..Len(locations) : \E k \in LogIdx :
         /\ geolog[k].ip = locations[j].ip
         /\ geolog[k].hop = locations[j].hop
         /\ locations[j].source = "primary" => geolog[k].primary = "ok"
         /\ locations[j].source = "fallback" => geolog[k].fallback = "success"

C16_Witness ==
    /\ pc = "console"
    /\ \E k \in LogIdx : geolog[k].primary = "no_loc" /\ geolog[k].fallback = "success"
    /\ \E k \in LogIdx : geolog[k].primary = "ok"
    /\ Len(locations) = 2

\* the layouts of the permissive family of highest priority that matches a
\* line of a trace without full-fidelity lines
SelectedLayouts(tr) ==
    IF \E i \in 1..Len(tr) : tr[i].fmt = "mtr_detailed" THEN {"mtr_detailed"}
    ELSE IF \E i \in 1..Len(tr) : tr[i].fmt = "mtr_plain" THEN {"mtr_plain"}
    ELSE IF \E i \in 1..Len(tr) : tr[i].fmt \in {"traceroute", "traceroute_n"}
    THEN {"traceroute", "traceroute_n"}
    ELSE {"bare"}

\* the hop index family (d) gives the address token of line i
SyntheticIndex(tr, i) == Cardinality({j \in 1..i : tr[j].host \in V4Shaped})

\* C17: without a full-fidelity line the Hops come from one permissive family,
\* the first of (a), (b), (c), (d) that matches a line: every Hop is a line of
\* that family with its index (for (d) the position among the address tokens),
\* and every valid address of that family is a Hop.
C17_OnePermissiveFamily ==
    (Extracted /\ ~\E i \in TraceIdx : IsFull(trace_output[i])) =>
        LET sel == SelectedLayouts(trace_output)
        IN  /\ \A k \in HopsIdx : \E i \in TraceIdx :
                 /\ trace_output[i].fmt \in sel
                 /\ trace_output[i].host = ips_with_hops[k].ip
                 /\ ips_with_hops[k].hop =
                        IF sel = {"bare"} THEN SyntheticIndex(trace_output, i)
                        ELSE trace_output[i].hop
            /\ \A i \in TraceIdx :
                 (trace_output[i].fmt \in sel /\ is_valid_ip(trace_output[i].host)) =>
                     \E k \in HopsIdx : ips_with_hops[k].ip = trace_output[i].host

C17_Witness ==
    /\ Extracted
    /\ \E i, j \in TraceIdx :
         /\ trace_output[i].fmt = "mtr_plain"
         /\ trace_output[j].fmt = "traceroute"
    /\ ips_with_hops = <<Pair(1, "192.168.1.1")>>

\* C18: every Hop of the Hop list has a row with its own address in the
\* console hop table and in the export, also when two Hops share a hop index.
C18_EveryHopHasItsRow ==
    /\ consoleRows # <<>> =>
          \A k \in HopsIdx :
              HasRow(consoleRows, ips_with_hops[k].hop, ips_with_hops[k].ip)
    /\ exportRows # <<>> =>
          \A k \in HopsIdx :
              HasRow(exportRows, ips_with_hops[k].hop, ips_with_hops[k].ip)

\* the lines that report three latency columns for a hop index
ColumnLines(tr, hop) ==
    SelectSeq(tr, LAMBDA l : l.hop = hop /\ Len(l.cols) >= 3)

\* every '<value> ms' token on the lines of an address
MsTokens(tr, ip) ==
    UNION {{tr[i].ms[n] : n \in 1..Len(tr[i].ms)} :
             i \in {j \in 1..Len(tr) : tr[j].host = ip}}

\* C19: the latency of a Hop is the designated column of the report line of
\* its hop index when there is one, else the minimum of all ms tokens on the
\* lines of its address, else there is no entry and the rows show N/A.
C19_LatencyAsStated ==
    "create_map" \in calls =>
        /\ \A k \in HopsIdx :
             LET e == ips_with_hops[k]
                 cl == ColumnLines(trace_output, e.hop)
                 ms == MsTokens(trace_output, e.ip)
             IN  IF cl # <<>>
                 THEN e \in DOMAIN latencies /\ latencies[e] = cl[1].cols[2]
                 ELSE IF ms # {}
                 THEN /\ e \in DOMAIN latencies
                      /\ latencies[e] \in ms
                      /\ \A v \in ms : latencies[e] <= v
                 ELSE e \notin DOMAIN latencies
        /\ \A i \in 1..Len(consoleRows) :
             consoleRows[i].latency = NA <=>
                 Pair(consoleRows[i].hop, consoleRows[i].ip) \notin DOMAIN latencies

\* C20: the unreachable count of the console summary is the number of hop
\* indices with 100% loss and no Hop, the hops of the map's overlay.
C20_UnreachableCountAsOverlay ==
    "save_route_data" \in calls =>
        /\ unreachable_count = Len(unreachable_hops)
        /\ unreachable_count =
              Cardinality({h \in DOMAIN packet_loss :
                  /\ packet_loss[h] = 100
                  /\ \A k \in HopsIdx : ips_with_hops[k].hop # h})

RowsIdx == 1..Len(exportRows)

\* C21: the console hop table and the data export have a row for exactly the
\* same hop indices, and for each index they show the same address (or ???),
\* the same latency (or N/A) and the same ASN, with 'Unknown' for a missing
\* location or ASN in both.
C21_ConsoleAndExportAgree ==
    exportRows # <<>> =>
        /\ Len(consoleRows) = Len(exportRows)
        /\ \A r \in RowsIdx :
             /\ consoleRows[r].hop = exportRows[r].hop
             /\ consoleRows[r].ip = exportRows[r].ip
             /\ consoleRows[r].latency = exportRows[r].latency
             /\ consoleRows[r].unit = " ms" <=> exportRows[r].latency # NA
             /\ consoleRows[r].asn = exportRows[r].asn
             /\ IF consoleRows[r].location = <<"Unknown">>
                THEN /\ exportRows[r].city = "Unknown"
                     /\ exportRows[r].region = "Unknown"
                     /\ exportRows[r].country = "Unknown"
                ELSE consoleRows[r].location =
                        <<exportRows[r].city, exportRows[r].country>>

\* both artifacts of one run show a located hop with a latency and an
\* unknown hop without ASN
C21_Witness ==
    /\ exportRows # <<>>
    /\ \E r \in RowsIdx :
         /\ exportRows[r].city = "city"
         /\ exportRows[r].latency # NA
         /\ consoleRows[r].asn \in {"org", "as"}
    /\ \E r \in RowsIdx :
         /\ consoleRows[r].ip = "???"
         /\ consoleRows[r].asn = "Unknown"
         /\ exportRows[r].latency = NA

\* C22: after extraction every packet-loss value recorded for a hop lies
\* between 0 and 100.
C22_LossWithinPercentRange ==
    \A h \in DOMAIN packet_loss : packet_loss[h] >= 0 /\ packet_loss[h] <= 100

\* line i of a full-fidelity trace names a valid address that an earlier
\* line already gave to the Hop list: lines 196-199 drop its Hop
DroppedAsDuplicate(i) ==
    /\ IsFull(trace_output[i])
    /\ is_valid_ip(trace_output[i].host)
    /\ \E j \in 1..(i - 1) :
          /\ IsFull(trace_output[j])
          /\ trace_output[j].host = trace_output[i].host
          /\ trace_output[j].hop # trace_output[i].hop
    /\ \A k \in HopsIdx : ips_with_hops[k].hop # trace_output[i].hop

\* C25: a hop line whose valid address was dropped as a duplicate is not
\* shown as ??? in the table or the export and, at 100% loss, is not listed
\* among the unreachable hops.
C25_DuplicateIsNotUnknown ==
    exportRows # <<>> =>
        \A i \in TraceIdx :
            DroppedAsDuplicate(i) =>
                /\ ~HasRow(consoleRows, trace_output[i].hop, "???")
                /\ ~HasRow(exportRows, trace_output[i].hop, "???")
                /\ \A u \in 1..Len(unreachable_hops) :
                      unreachable_hops[u] # trace_output[i].hop

\* C23: no geolocation request waits for its provider without a time limit:
\* a lookup that was started returns, so the pipeline is never left blocked
\* inside create_map's lookup loop.
C23_NoLookupBlocksForever ==
    pc # "blocked"

\* C24: process_prefixes never has more than MAX_WORKERS calls of
\* process_prefix in progress at once, and every submitted call has completed
\* when the summary is displayed.
C24_AtMostMaxWorkers ==
    /\ Cardinality(Running(task)) <= MAX_WORKERS
    /\ summary =>
          \A i \in DOMAIN task : task[i].pc \in {"finished", "collected"}

\* every worker is busy while a submitted call still waits in the queue
C24_Witness ==
    /\ Cardinality(Running(task)) = MAX_WORKERS
    /\ \E i \in DOMAIN task : task[i].pc = "queued"
    /\ \E i \in DOMAIN task : task[i].pc = "request"

\* C26: for any cache key at most one HTTP request that is answered
\* successfully is issued by one PrefixHealth instance.
C26_OneSuccessfulRequestPerKey ==
    \A k \in DOMAIN api_ok : api_ok[k] <= 1

\* the entries of a list that name the prefix p
Naming(list, p) == {i \in 1..Len(list) : list[i].prefix = p}

\* C28: when process_prefixes is through, self.results has exactly one entry
\* for every submitted occurrence of a prefix, naming that prefix.
C28_OneEntryPerPrefix ==
    summary =>
        /\ Len(results) = Len(prefixes)
        /\ \A p \in PrefixSamples :
              Cardinality(Naming(results, p)) =
                  Cardinality({i \in 1..Len(prefixes) : prefixes[i] = p})

\* C30: 'Total Valid Hosts' is the fixed count 1 only for a network of one
\* address and the fixed count 2 only for a network of two addresses; every
\* other network with a prefix length above 0 has num_addresses - 2 hosts
\* (which is 2 again for a network of four), from network + 1 to
\* broadcast - 1.
C30_HostCountByNetworkSize ==
    (report # NoReport /\ ~report.error) =>
        /\ report.total_hosts = Pow2(0, 0) =>
                num_addresses(address_input).exp = 0
        /\ report.total_hosts = Pow2(1, 0) =>
                num_addresses(address_input).exp = 1
        /\ (address_input.prefixlen > 0 /\ num_addresses(address_input).exp >= 2) =>
                /\ report.total_hosts = Pow2(num_addresses(address_input).exp, 2)
                /\ report.first_address = Offset("network", 1)
                /\ report.last_address = Offset("broadcast", -1)

MenusAlive == {i \in 1..Len(procs) : procs[i].script = Menu}

\* C27: choosing Exit ends the whole program: once Exit was chosen no
\* process remains and no menu is shown again; at most one menu process is
\* alive at any time.
C27_ExitEndsProgram ==
    /\ exited => procs = <<>>
    /\ Cardinality(MenusAlive) <= 1

\* C29: once the operator of netmaskcalc.py has declined to go on, the tool
\* only waits for the menu it started and then ends: it does not ask for
\* prefixes again.
C29_DeclineEndsLoop ==
    \A i \in 1..Len(procs) :
        (procs[i].script = "netmaskcalc.py" /\ procs[i].declined) =>
            procs[i].pc = "relaunch"

====
